---- MODULE Spec2Model ----
(***************************************************************************)
(* Event manager: the events API (create / update / destroy / register /   *)
(* unregister) of src/events/views.py over the tables of                   *)
(* src/events/models.py.  Every request runs in autocommit mode: each ORM  *)
(* query of a view is one step, and steps of concurrent requests           *)
(* interleave.                                                             *)
(***************************************************************************)
EXTENDS Integers, FiniteSets, Sequences, TLC

\* ---------------------------------------------------------------- bounds
MaxUsers == 3
MaxEvents == 1
MaxTime == 1
MaxCap == 1
MaxRegs == 2
MaxProcs == 2
MaxMailEvents == 2
MaxCascadeEvents == 2

Users == 1 .. MaxUsers
EventIds == 1 .. MaxEvents
Times == 0 .. MaxTime
Procs == 1 .. MaxProcs

\* An optional value is a set: {} is None, {n} is the value n.
None == {}
Some(n) == {n}
\* max_attendees a client may send: absent/null, or an integer (also <= 0).
CapInputs == {None} \cup {Some(n) : n \in (-1) .. MaxCap}

VARIABLES
    now,            \* timezone.now()
    events,         \* Event table: id -> row
    nextEventId,    \* Event auto-increment primary key
    registrations,  \* EventRegistration table: set of rows
    nextRegId,      \* EventRegistration auto-increment primary key
    req,            \* the requests in flight, one slot per worker
    mail,           \* the call of a notification sender in progress, if any
    outbox          \* the messages send_mail has delivered

vars == <<now, events, nextEventId, registrations, nextRegId, req, mail, outbox>>

\* --------------------------------------------------------- request slots
Idle ==
    [pc |-> "idle", op |-> "none", user |-> 0, event |-> 0, date |-> None,
     max_attendees |-> None, registration |-> 0, status |-> "", errors |-> {}]

\* A finished request: the response, not yet handed back.
Response(op, u, e, code, errs) ==
    [Idle EXCEPT !.pc = "done", !.op = op, !.user = u, !.event = e,
                 !.status = code, !.errors = errs]

\* A request between two queries of its view; cap is the max_attendees of the
\* Event instance it loaded (or of the draft it carries), reg the primary key
\* of the EventRegistration instance it loaded.
Running(op, pc, u, e, cap, reg) ==
    [Idle EXCEPT !.pc = pc, !.op = op, !.user = u, !.event = e,
                 !.max_attendees = cap, !.registration = reg]

\* ----------------------------------------------------------------- model
\* Event.registrations.filter(status='confirmed')
ConfirmedRegistrations(e) ==
    {r \in registrations : r.event = e /\ r.status = "confirmed"}

\* Event.attendees_count
attendees_count(e) == Cardinality(ConfirmedRegistrations(e))

\* is_full with > for >=: an event at its limit still admits
is_full_strict(cap, e) ==
    IF cap = None THEN FALSE
    ELSE \E n \in cap : attendees_count(e) > n

\* Event.is_full, on an Event instance whose max_attendees was loaded as cap
is_full(cap, e) ==
    IF cap = None THEN FALSE
    ELSE \E n \in cap : attendees_count(e) >= n

\* EventDetailSerializer.get_is_registered
get_is_registered(u, e) ==
    \E r \in registrations : r.user = u /\ r.event = e /\ r.status = "confirmed"

\* EventRegistration.objects.filter(user=user, event=event)
RegistrationsOf(u, e) ==
    {r \in registrations : r.user = u /\ r.event = e}

\* The table without its unique_together constraint
unique_together_missing(u, e) == FALSE

\* EventRegistration.Meta.unique_together: would a new (u, e) row violate it
unique_together(u, e) == RegistrationsOf(u, e) # {}

\* EventRegistration.event foreign key: would a new row on e violate it
ForeignKeyViolation(e) == e \notin DOMAIN events

\* ---------------------------------------------------------- serializers
\* A serializer without its date validator
validate_date_missing(value) == {}

\* EventCreateUpdateSerializer.validate_date: the errors it raises
validate_date(value) ==
    IF value < now THEN {"PastDateError"} ELSE {}

\* EventCreateUpdateSerializer.validate_max_attendees: the errors it raises
validate_max_attendees(value) ==
    IF value # None /\ (\E n \in value : n <= 0)
    THEN {"InvalidCapacityError"} ELSE {}

\* ---------------------------------------------------------------- clock
Tick ==
    /\ now < MaxTime
    /\ now' = now + 1
    /\ UNCHANGED <<events, nextEventId, registrations, nextRegId, req, mail, outbox>>

\* ------------------------------------------------------ EventViewSet.create
\* request.data of a create call reaches the view
\* limit caps the Event primary keys handed out.
CreateRequestUpTo(limit, p, u, date, cap) ==
    /\ req[p].pc = "idle"
    /\ nextEventId + Cardinality({q \in Procs : req[q].op = "create" /\ req[q].pc = "is_valid"})
          <= limit
    /\ req' = [req EXCEPT ![p] =
                 [Running("create", "is_valid", u, 0, cap, 0) EXCEPT !.date = Some(date)]]
    /\ UNCHANGED <<now, events, nextEventId, registrations, nextRegId, mail, outbox>>

CreateRequest(p, u, date, cap) == CreateRequestUpTo(MaxEvents, p, u, date, cap)

\* serializer.is_valid(raise_exception=True); serializer.save(organizer=request.user)
Create(p) ==
    /\ req[p].pc = "is_valid"
    /\ LET u == req[p].user
           date == CHOOSE d \in req[p].date : TRUE
           cap == req[p].max_attendees
           errs == validate_date(date) \cup validate_max_attendees(cap)
       IN
       IF errs # {}
       THEN /\ req' = [req EXCEPT ![p] =
                         Response("create", u, 0, "HTTP_400_BAD_REQUEST", errs)]
            /\ UNCHANGED <<events, nextEventId>>
       ELSE /\ events' = [i \in DOMAIN events \cup {nextEventId} |->
                            IF i = nextEventId
                            THEN [organizer |-> u, date |-> date,
                                  max_attendees |-> cap]
                            ELSE events[i]]
            /\ nextEventId' = nextEventId + 1
            /\ req' = [req EXCEPT ![p] =
                         Response("create", u, nextEventId, "HTTP_201_CREATED", {})]
    /\ UNCHANGED <<now, registrations, nextRegId, mail, outbox>>

\* ------------------------------------- EventViewSet.update / partial_update
\* IsOrganizerOrReadOnly.has_object_permission for an unsafe method
IsOrganizerOrReadOnly(u, e) == events[e].organizer = u

\* partial is PATCH; a PUT must carry every required field (date is one,
\* max_attendees is nullable and so optional).  date is None when the patch
\* has no date; cap is None when it has no max_attendees and Some(c) when it
\* sets max_attendees to c (c itself None for null).
Update(p, u, e, partial, date, cap) ==
    /\ req[p].pc = "idle"
    /\ IF e \notin DOMAIN events
       THEN /\ req' = [req EXCEPT ![p] =
                         Response("update", u, e, "HTTP_404_NOT_FOUND", {"NotFound"})]
            /\ UNCHANGED events
       ELSE IF ~IsOrganizerOrReadOnly(u, e)
       THEN /\ req' = [req EXCEPT ![p] =
                         Response("update", u, e, "HTTP_403_FORBIDDEN",
                                  {"PermissionDenied"})]
            /\ UNCHANGED events
       ELSE LET errs ==
                    (IF date # None THEN validate_date(CHOOSE d \in date : TRUE)
                     ELSE IF partial THEN {} ELSE {"required"})
                    \cup (IF cap # None
                          THEN validate_max_attendees(CHOOSE c \in cap : TRUE)
                          ELSE {})
            IN
            IF errs # {}
            THEN /\ req' = [req EXCEPT ![p] =
                              Response("update", u, e, "HTTP_400_BAD_REQUEST", errs)]
                 /\ UNCHANGED events
            ELSE /\ events' = [events EXCEPT ![e] =
                        [organizer |-> @.organizer,
                         date |-> IF date # None
                                  THEN CHOOSE d \in date : TRUE ELSE @.date,
                         max_attendees |-> IF cap # None
                                           THEN CHOOSE c \in cap : TRUE
                                           ELSE @.max_attendees]]
                 /\ req' = [req EXCEPT ![p] =
                              Response("update", u, e, "HTTP_200_OK", {})]
    /\ UNCHANGED <<now, nextEventId, registrations, nextRegId, mail, outbox>>

\* ----------------------------------------------------- EventViewSet.destroy
\* destroy that removes the event row and leaves its registrations behind
Destroy_no_cascade(p, u, e) ==
    /\ req[p].pc = "idle"
    /\ IF e \notin DOMAIN events
       THEN /\ req' = [req EXCEPT ![p] =
                         Response("destroy", u, e, "HTTP_404_NOT_FOUND", {"NotFound"})]
            /\ UNCHANGED events
       ELSE IF ~IsOrganizerOrReadOnly(u, e)
       THEN /\ req' = [req EXCEPT ![p] =
                         Response("destroy", u, e, "HTTP_403_FORBIDDEN",
                                  {"PermissionDenied"})]
            /\ UNCHANGED events
       ELSE /\ events' = [i \in DOMAIN events \ {e} |-> events[i]]
            /\ req' = [req EXCEPT ![p] =
                         Response("destroy", u, e, "HTTP_204_NO_CONTENT", {})]
    /\ UNCHANGED <<now, nextEventId, registrations, nextRegId, mail, outbox>>

\* destroy without the object permission: any authenticated user may delete
Destroy_unchecked(p, u, e) ==
    /\ req[p].pc = "idle"
    /\ IF e \notin DOMAIN events
       THEN /\ req' = [req EXCEPT ![p] =
                         Response("destroy", u, e, "HTTP_404_NOT_FOUND", {"NotFound"})]
            /\ UNCHANGED <<events, registrations>>
       ELSE /\ events' = [i \in DOMAIN events \ {e} |-> events[i]]
            /\ registrations' = {r \in registrations : r.event # e}
            /\ req' = [req EXCEPT ![p] =
                         Response("destroy", u, e, "HTTP_204_NO_CONTENT", {})]
    /\ UNCHANGED <<now, nextEventId, nextRegId, mail, outbox>>

\* on_delete=CASCADE of EventRegistration.event
Destroy(p, u, e) ==
    /\ req[p].pc = "idle"
    /\ IF e \notin DOMAIN events
       THEN /\ req' = [req EXCEPT ![p] =
                         Response("destroy", u, e, "HTTP_404_NOT_FOUND", {"NotFound"})]
            /\ UNCHANGED <<events, registrations>>
       ELSE IF ~IsOrganizerOrReadOnly(u, e)
       THEN /\ req' = [req EXCEPT ![p] =
                         Response("destroy", u, e, "HTTP_403_FORBIDDEN",
                                  {"PermissionDenied"})]
            /\ UNCHANGED <<events, registrations>>
       ELSE /\ events' = [i \in DOMAIN events \ {e} |-> events[i]]
            /\ registrations' = {r \in registrations : r.event # e}
            /\ req' = [req EXCEPT ![p] =
                         Response("destroy", u, e, "HTTP_204_NO_CONTENT", {})]
    /\ UNCHANGED <<now, nextEventId, nextRegId, mail, outbox>>

\* ---------------------------------------------------- EventViewSet.register
\* register without its ownership check
IsOrganizer_unchecked(u, e) == FALSE

\* event.organizer == user
IsOrganizer(u, e) == events[e].organizer = u

\* event = self.get_object(); the ownership check reads the loaded instance
RegisterGetObject(p, u, e) ==
    /\ req[p].pc = "idle"
    /\ req' = [req EXCEPT ![p] =
          IF e \notin DOMAIN events
          THEN Response("register", u, e, "HTTP_404_NOT_FOUND", {"NotFound"})
          ELSE IF IsOrganizer(u, e)
          THEN Response("register", u, e, "HTTP_400_BAD_REQUEST",
                        {"OwnerSelfRegistration"})
          ELSE Running("register", "exists", u, e, events[e].max_attendees, 0)]
    /\ UNCHANGED <<now, events, nextEventId, registrations, nextRegId, mail, outbox>>

\* register without its duplicate check
RegisterExists_skipped(p) ==
    /\ req[p].pc = "exists"
    /\ req' = [req EXCEPT ![p] = [@ EXCEPT !.pc = "is_full"]]
    /\ UNCHANGED <<now, events, nextEventId, registrations, nextRegId, mail, outbox>>

\* register checking the capacity before the duplicate
RegisterExists_capacity_first(p) ==
    /\ req[p].pc = "exists"
    /\ req' = [req EXCEPT ![p] =
          IF is_full(@.max_attendees, @.event)
          THEN Response("register", @.user, @.event, "HTTP_400_BAD_REQUEST",
                        {"CapacityExceeded"})
          ELSE IF RegistrationsOf(@.user, @.event) # {}
          THEN Response("register", @.user, @.event, "HTTP_400_BAD_REQUEST",
                        {"DuplicateRegistration"})
          ELSE [@ EXCEPT !.pc = "is_full"]]
    /\ UNCHANGED <<now, events, nextEventId, registrations, nextRegId, mail, outbox>>

\* EventRegistration.objects.filter(user=user, event=event).exists()
RegisterExists(p) ==
    /\ req[p].pc = "exists"
    /\ req' = [req EXCEPT ![p] =
          IF RegistrationsOf(@.user, @.event) # {}
          THEN Response("register", @.user, @.event, "HTTP_400_BAD_REQUEST",
                        {"DuplicateRegistration"})
          ELSE [@ EXCEPT !.pc = "is_full"]]
    /\ UNCHANGED <<now, events, nextEventId, registrations, nextRegId, mail, outbox>>

\* event.is_full
RegisterIsFull(p) ==
    /\ req[p].pc = "is_full"
    /\ req' = [req EXCEPT ![p] =
          IF is_full(@.max_attendees, @.event)
          THEN Response("register", @.user, @.event, "HTTP_400_BAD_REQUEST",
                        {"CapacityExceeded"})
          ELSE [@ EXCEPT !.pc = "create"]]
    /\ UNCHANGED <<now, events, nextEventId, registrations, nextRegId, mail, outbox>>

\* EventRegistration.objects.create(user=user, event=event, status='confirmed')
RegisterCreate(p) ==
    /\ req[p].pc = "create"
    /\ nextRegId <= MaxRegs
    /\ LET u == req[p].user
           e == req[p].event
       IN
       IF unique_together(u, e) \/ ForeignKeyViolation(e)
       THEN /\ req' = [req EXCEPT ![p] =
                         Response("register", u, e, "HTTP_500_INTERNAL_SERVER_ERROR",
                                  {"IntegrityError"})]
            /\ UNCHANGED <<registrations, nextRegId>>
       ELSE /\ registrations' = registrations \cup
                   {[id |-> nextRegId, user |-> u, event |-> e,
                     status |-> "confirmed"]}
            /\ nextRegId' = nextRegId + 1
            /\ req' = [req EXCEPT ![p] =
                         Response("register", u, e, "HTTP_201_CREATED", {})]
    /\ UNCHANGED <<now, events, nextEventId, mail, outbox>>

\* -------------------------------------------------- EventViewSet.unregister
UnregisterGetObject(p, u, e) ==
    /\ req[p].pc = "idle"
    /\ req' = [req EXCEPT ![p] =
          IF e \notin DOMAIN events
          THEN Response("unregister", u, e, "HTTP_404_NOT_FOUND", {"NotFound"})
          ELSE Running("unregister", "get", u, e, None, 0)]
    /\ UNCHANGED <<now, events, nextEventId, registrations, nextRegId, mail, outbox>>

\* EventRegistration.objects.get(user=user, event=event)
UnregisterGet(p) ==
    /\ req[p].pc = "get"
    /\ LET found == RegistrationsOf(req[p].user, req[p].event) IN
       req' = [req EXCEPT ![p] =
          IF found = {}
          THEN Response("unregister", @.user, @.event, "HTTP_400_BAD_REQUEST",
                        {"NotRegistered"})
          ELSE IF Cardinality(found) > 1
          THEN Response("unregister", @.user, @.event,
                        "HTTP_500_INTERNAL_SERVER_ERROR", {"MultipleObjectsReturned"})
          ELSE [@ EXCEPT !.pc = "delete",
                         !.registration = (CHOOSE r \in found : TRUE).id]]
    /\ UNCHANGED <<now, events, nextEventId, registrations, nextRegId, mail, outbox>>

\* unregister as a status change to cancelled instead of a delete
UnregisterDelete_cancel(p) ==
    /\ req[p].pc = "delete"
    /\ registrations' = {IF r.id = req[p].registration
                         THEN [r EXCEPT !.status = "cancelled"] ELSE r :
                         r \in registrations}
    /\ req' = [req EXCEPT ![p] =
                 Response("unregister", @.user, @.event, "HTTP_200_OK", {})]
    /\ UNCHANGED <<now, events, nextEventId, nextRegId, mail, outbox>>

\* unregister answering 200 without deleting the row
UnregisterDelete_kept(p) ==
    /\ req[p].pc = "delete"
    /\ req' = [req EXCEPT ![p] =
                 Response("unregister", @.user, @.event, "HTTP_200_OK", {})]
    /\ UNCHANGED <<now, events, nextEventId, registrations, nextRegId, mail, outbox>>

\* registration.delete(): by primary key
UnregisterDelete(p) ==
    /\ req[p].pc = "delete"
    /\ registrations' = {r \in registrations : r.id # req[p].registration}
    /\ req' = [req EXCEPT ![p] =
                 Response("unregister", @.user, @.event, "HTTP_200_OK", {})]
    /\ UNCHANGED <<now, events, nextEventId, nextRegId, mail, outbox>>

\* The response is handed back and the worker is free again.
Respond(p) ==
    /\ req[p].pc = "done"
    /\ req' = [req EXCEPT ![p] = Idle]
    /\ UNCHANGED <<now, events, nextEventId, registrations, nextRegId, mail, outbox>>

\* ------------------------------------------------------- events/emails.py
\* The calls a sender makes that can raise.
EmailCalls == {"strftime", "render_to_string", "send_mail"}

EmailFunctions == {"send_registration_confirmation_email", "send_unregistration_email"}

\* No sender is being called.
NoMail ==
    [pc |-> "idle", fn |-> "none", user |-> 0, event |-> 0, raises |-> {},
     result |-> FALSE]

\* A call fn(user, event); raises is the set of its calls that raise this time.
MailCall(fn, u, e, raises) ==
    [pc |-> "strftime", fn |-> fn, user |-> u, event |-> e, raises |-> raises,
     result |-> FALSE]

\* event_date = event.date.strftime(...): outside the try block
EmailStrftime(fn) ==
    /\ mail.fn = fn
    /\ mail.pc = "strftime"
    /\ mail' = [mail EXCEPT !.pc = IF "strftime" \in mail.raises
                                   THEN "raised" ELSE "render_to_string"]
    /\ UNCHANGED <<now, events, nextEventId, registrations, nextRegId, req, outbox>>

\* html_message = render_to_string(...); strip_tags: outside the try block
EmailRenderToString(fn) ==
    /\ mail.fn = fn
    /\ mail.pc = "render_to_string"
    /\ mail' = [mail EXCEPT !.pc = IF "render_to_string" \in mail.raises
                                   THEN "raised" ELSE "send_mail"]
    /\ UNCHANGED <<now, events, nextEventId, registrations, nextRegId, req, outbox>>

\* try: send_mail(...); return True / except Exception: print; return False
EmailSendMail(fn) ==
    /\ mail.fn = fn
    /\ mail.pc = "send_mail"
    /\ IF "send_mail" \in mail.raises
       THEN /\ mail' = [mail EXCEPT !.pc = "returned", !.result = FALSE]
            /\ UNCHANGED outbox
       ELSE /\ mail' = [mail EXCEPT !.pc = "returned", !.result = TRUE]
            /\ outbox' = outbox \cup
                  {[fn |-> fn, user |-> mail.user, event |-> mail.event]}
    /\ UNCHANGED <<now, events, nextEventId, registrations, nextRegId, req>>

send_registration_confirmation_email ==
    \/ EmailStrftime("send_registration_confirmation_email")
    \/ EmailRenderToString("send_registration_confirmation_email")
    \/ EmailSendMail("send_registration_confirmation_email")

send_unregistration_email ==
    \/ EmailStrftime("send_unregistration_email")
    \/ EmailRenderToString("send_unregistration_email")
    \/ EmailSendMail("send_unregistration_email")

Init ==
    /\ now = 0
    /\ events = <<>>
    /\ nextEventId = 1
    /\ registrations = {}
    /\ nextRegId = 1
    /\ req = [p \in Procs |-> Idle]
    /\ mail = NoMail
    /\ outbox = {}

Next ==
    \/ Tick
    \/ \E p \in Procs, u \in Users, d \in Times, c \in CapInputs :
          CreateRequest(p, u, d, c)
    \/ \E p \in Procs : Create(p)
    \/ \E p \in Procs, u \in Users, e \in EventIds, partial \in BOOLEAN,
          d \in {None} \cup {Some(t) : t \in Times},
          c \in {None} \cup {Some(x) : x \in CapInputs} :
          Update(p, u, e, partial, d, c)
    \/ \E p \in Procs, u \in Users, e \in EventIds : Destroy(p, u, e)
    \/ \E p \in Procs, u \in Users, e \in EventIds : RegisterGetObject(p, u, e)
    \/ \E p \in Procs : RegisterExists(p)
    \/ \E p \in Procs : RegisterIsFull(p)
    \/ \E p \in Procs : RegisterCreate(p)
    \/ \E p \in Procs, u \in Users, e \in EventIds : UnregisterGetObject(p, u, e)
    \/ \E p \in Procs : UnregisterGet(p)
    \/ \E p \in Procs : UnregisterDelete(p)
    \/ \E p \in Procs : Respond(p)

Spec == Init /\ [][Next]_vars

\* Sequential execution: a request runs to its response before the next one
\* starts, so at most one request is ever between two of its queries.
InFlight == {p \in Procs : req[p].pc \notin {"idle", "done"}}

SeqNext == Next /\ Cardinality(InFlight') <= 1

SeqSpec == Init /\ [][SeqNext]_vars

\* Several events side by side: create, destroy, register and unregister on
\* events without a limit, the clock standing still.
CascadeEventIds == 1 .. MaxCascadeEvents

CascadeNext ==
    \/ \E p \in Procs, u \in Users :
          CreateRequestUpTo(MaxCascadeEvents, p, u, MaxTime, None)
    \/ \E p \in Procs : Create(p)
    \/ \E p \in Procs, u \in Users, e \in CascadeEventIds : Destroy(p, u, e)
    \/ \E p \in Procs, u \in Users, e \in CascadeEventIds : RegisterGetObject(p, u, e)
    \/ \E p \in Procs : RegisterExists(p)
    \/ \E p \in Procs : RegisterIsFull(p)
    \/ \E p \in Procs : RegisterCreate(p)
    \/ \E p \in Procs, u \in Users, e \in CascadeEventIds : UnregisterGetObject(p, u, e)
    \/ \E p \in Procs : UnregisterGet(p)
    \/ \E p \in Procs : UnregisterDelete(p)
    \/ \E p \in Procs : Respond(p)

CascadeSpec == Init /\ [][CascadeNext]_vars

\* A sender called on its own, with every choice of arguments and of the
\* calls that raise.
EmailInit ==
    /\ now = 0
    /\ events = <<>>
    /\ nextEventId = 1
    /\ registrations = {}
    /\ nextRegId = 1
    /\ req = [p \in Procs |-> Idle]
    /\ outbox = {}
    /\ mail \in {MailCall(fn, u, e, raises) :
                    fn \in EmailFunctions, u \in Users,
                    e \in 1 .. MaxMailEvents, raises \in SUBSET EmailCalls}

EmailNext ==
    \/ send_registration_confirmation_email
    \/ send_unregistration_email

EmailSpec == EmailInit /\ [][EmailNext]_vars

\* ================================================================ properties
\* Slot p took a step (only p's own actions change req[p]).
Stepped(p) == req'[p] # req[p]

\* Slot p holds the response of an `op` call with this status and errors.
Answered(p, op, code, errs) ==
    /\ req[p].pc = "done"
    /\ req[p].op = op
    /\ req[p].status = code
    /\ req[p].errors = errs

\* Slot p's step produced that response.
Answers(p, code, errs) ==
    /\ req'[p].pc = "done"
    /\ req'[p].status = code
    /\ req'[p].errors = errs

\* ------------------------------------------------------------------- C1
\* C1: no double admission.  Whenever a register call inserts its row on an
\* event whose max_attendees is N (the value the call loaded and the value
\* the event has now), the confirmed count after the insert is at most N:
\* a call arriving beyond the N admitted ones is never admitted.
C1_NoDoubleAdmission ==
    [][\A p \in Procs :
        (/\ req[p].pc = "create"
         /\ Answers(p, "HTTP_201_CREATED", {})
         /\ req[p].event \in DOMAIN events
         /\ req[p].max_attendees # None
         /\ events[req[p].event].max_attendees = req[p].max_attendees)
        => \A n \in req[p].max_attendees :
              Cardinality({r \in registrations' :
                  r.event = req[p].event /\ r.status = "confirmed"}) <= n]_vars

\* ------------------------------------------------------------------- C2
\* C2: in every reachable state at most one EventRegistration row exists for
\* each (user, event) pair.
C2_UniqueRegistration ==
    \A u \in Users, e \in EventIds :
        Cardinality({r \in registrations : r.user = u /\ r.event = e}) <= 1

\* Two register calls of one user raced past the duplicate check and the
\* second insert was refused by the constraint.
C2_Witness ==
    \E p \in Procs :
        /\ Answered(p, "register", "HTTP_500_INTERNAL_SERVER_ERROR", {"IntegrityError"})
        /\ req[p].event \in DOMAIN events
        /\ RegistrationsOf(req[p].user, req[p].event) # {}

\* ------------------------------------------------------------------- C3
\* C3: a register call issued while a row for its (user, event) pair exists
\* reaches the duplicate check, and a duplicate check that finds a row fails
\* with DuplicateRegistration and leaves the table unchanged.
C3_DuplicateRegistration ==
    [][\A p \in Procs :
        /\ (/\ req[p].pc = "idle"
            /\ req'[p].op = "register"
            /\ RegistrationsOf(req'[p].user, req'[p].event) # {})
           => req'[p].pc = "exists"
        /\ (/\ req[p].pc = "exists"
            /\ Stepped(p)
            /\ RegistrationsOf(req[p].user, req[p].event) # {})
           => /\ Answers(p, "HTTP_400_BAD_REQUEST", {"DuplicateRegistration"})
              /\ registrations' = registrations]_vars

\* A registered user's second register call was answered DuplicateRegistration.
C3_Witness ==
    \E p \in Procs :
        /\ Answered(p, "register", "HTTP_400_BAD_REQUEST", {"DuplicateRegistration"})
        /\ RegistrationsOf(req[p].user, req[p].event) # {}

\* ------------------------------------------------------------------- C4
\* C4: a register call by the organizer of an existing event fails with
\* OwnerSelfRegistration and creates nothing, whatever the event's capacity
\* and count; and no row's user is the organizer of the row's event.
C4_OwnerNeverRegistered ==
    /\ [](\A r \in registrations :
            r.event \in DOMAIN events => events[r.event].organizer # r.user)
    /\ [][\A p \in Procs :
            (/\ req[p].pc = "idle"
             /\ req'[p].op = "register"
             /\ req'[p].event \in DOMAIN events
             /\ events[req'[p].event].organizer = req'[p].user)
            => /\ Answers(p, "HTTP_400_BAD_REQUEST", {"OwnerSelfRegistration"})
               /\ registrations' = registrations]_vars

\* The organizer was refused on an event that is full.
C4_Witness ==
    \E p \in Procs :
        /\ Answered(p, "register", "HTTP_400_BAD_REQUEST", {"OwnerSelfRegistration"})
        /\ req[p].event \in DOMAIN events
        /\ events[req[p].event].max_attendees # None
        /\ is_full(events[req[p].event].max_attendees, req[p].event)

\* ------------------------------------------------------------------- C5
\* C5: an unregister whose lookup finds no row fails with NotRegistered and
\* changes neither table; one whose lookup finds the row goes on to delete
\* it, and deleting the row it found answers 200 and leaves no row at all
\* for the pair (no cancelled row), so is_registered is false afterwards.
C5_Unregister ==
    [][\A p \in Procs :
        /\ (/\ req[p].pc = "get"
            /\ Stepped(p)
            /\ RegistrationsOf(req[p].user, req[p].event) = {})
           => /\ Answers(p, "HTTP_400_BAD_REQUEST", {"NotRegistered"})
              /\ registrations' = registrations
              /\ events' = events
        /\ (/\ req[p].pc = "get"
            /\ Stepped(p)
            /\ RegistrationsOf(req[p].user, req[p].event) # {})
           => req'[p].pc = "delete"
        /\ (/\ req[p].pc = "delete"
            /\ Stepped(p)
            /\ \E r \in registrations : r.id = req[p].registration)
           => /\ Answers(p, "HTTP_200_OK", {})
              /\ registrations' =
                    {r \in registrations : r.id # req[p].registration}
              /\ ~\E r \in registrations' :
                    r.user = req[p].user /\ r.event = req[p].event
              /\ ~get_is_registered(req[p].user, req[p].event)']_vars

\* A registered user's unregister was answered 200 and the row is gone.
C5_Witness ==
    \E p \in Procs :
        /\ Answered(p, "unregister", "HTTP_200_OK", {})
        /\ req[p].event \in DOMAIN events
        /\ RegistrationsOf(req[p].user, req[p].event) = {}
        /\ nextRegId > 1

\* ------------------------------------------------------------------- C6
\* C6: unregistration frees capacity.  On an event with max_attendees = N
\* that has N confirmed rows (is_full true, so a capacity check answers
\* CapacityExceeded), the delete of one confirmed row leaves N-1 confirmed
\* rows and is_full false; a capacity check on an event that is not full
\* lets the call through, and its insert then creates the row and answers 201.
C6_UnregisterFreesCapacity ==
    [][\A p \in Procs :
        LET e == req[p].event
            u == req[p].user
        IN
        /\ (/\ req[p].pc = "delete"
            /\ Stepped(p)
            /\ e \in DOMAIN events
            /\ \E r \in ConfirmedRegistrations(e) : r.id = req[p].registration
            /\ events[e].max_attendees # None
            /\ \A n \in events[e].max_attendees : attendees_count(e) = n)
           => /\ is_full(events[e].max_attendees, e)
              /\ \A n \in events[e].max_attendees : attendees_count(e)' = n - 1
              /\ ~is_full(events[e].max_attendees, e)'
        /\ (/\ req[p].pc = "is_full"
            /\ Stepped(p)
            /\ e \in DOMAIN events
            /\ req[p].max_attendees = events[e].max_attendees)
           => IF is_full(events[e].max_attendees, e)
              THEN Answers(p, "HTTP_400_BAD_REQUEST", {"CapacityExceeded"})
              ELSE req'[p].pc = "create"
        /\ (/\ req[p].pc = "create"
            /\ Stepped(p)
            /\ e \in DOMAIN events
            /\ RegistrationsOf(u, e) = {})
           => /\ Answers(p, "HTTP_201_CREATED", {})
              /\ \E r \in registrations' \ registrations :
                    r.user = u /\ r.event = e /\ r.status = "confirmed"]_vars

\* A user refused with CapacityExceeded was admitted later: the refusal and
\* the 201 are both held, the user's row exists and the event is not over
\* its limit.
C6_Witness ==
    \E p, q \in Procs :
        /\ Answered(p, "register", "HTTP_400_BAD_REQUEST", {"CapacityExceeded"})
        /\ Answered(q, "register", "HTTP_201_CREATED", {})
        /\ req[p].user = req[q].user
        /\ req[p].event = req[q].event
        /\ req[p].event \in DOMAIN events
        /\ RegistrationsOf(req[p].user, req[p].event) # {}
        /\ events[req[p].event].max_attendees # None
        /\ \A n \in events[req[p].event].max_attendees :
              attendees_count(req[p].event) = n

\* ------------------------------------------------------------------- C7
\* C7: for every event, attendees_count is the number of rows on the event
\* with status confirmed, and is_full holds exactly when max_attendees is
\* set and that number is >= max_attendees; a capacity check made on an
\* Event instance whose max_attendees is unset never answers
\* CapacityExceeded.
C7_IsFull ==
    /\ [](\A e \in DOMAIN events :
            LET live == Cardinality({r \in registrations :
                            r.event = e /\ r.status = "confirmed"})
                cap == events[e].max_attendees
            IN /\ attendees_count(e) = live
               /\ is_full(cap, e) <=> (cap # None /\ \A n \in cap : live >= n))
    /\ [][\A p \in Procs :
            (req[p].pc = "is_full" /\ Stepped(p) /\ req[p].max_attendees = None)
            => req'[p].pc = "create"]_vars

\* An event without a limit holds two confirmed rows, and an event with a
\* limit would be full at that count.
C7_Witness ==
    \E e \in DOMAIN events :
        /\ events[e].max_attendees = None
        /\ attendees_count(e) >= 2
        /\ ~is_full(events[e].max_attendees, e)
        /\ is_full(Some(attendees_count(e)), e)

\* ------------------------------------------------------------------- C8
\* C8: register checks ownership, then duplication, then capacity, and the
\* first failing check decides: the organizer is answered
\* OwnerSelfRegistration and a registered user DuplicateRegistration, full
\* event or not, and a call answered CapacityExceeded comes from a user who
\* is neither the organizer nor registered.
C8_CheckOrder ==
    [][\A p \in Procs :
        /\ (/\ req[p].pc = "idle"
            /\ req'[p].op = "register"
            /\ req'[p].event \in DOMAIN events
            /\ IF events[req'[p].event].organizer = req'[p].user
               THEN Answers(p, "HTTP_400_BAD_REQUEST", {"OwnerSelfRegistration"})
               ELSE req'[p].pc = "exists")
           \/ ~(req[p].pc = "idle" /\ req'[p].op = "register"
                /\ req'[p].event \in DOMAIN events)
        /\ (/\ req[p].pc = "exists"
            /\ Stepped(p)
            /\ RegistrationsOf(req[p].user, req[p].event) # {})
           => Answers(p, "HTTP_400_BAD_REQUEST", {"DuplicateRegistration"})
        /\ (Stepped(p) /\ req'[p].errors = {"CapacityExceeded"})
           => /\ req[p].pc = "is_full"
              /\ req[p].event \in DOMAIN events
              /\ events[req[p].event].organizer # req[p].user
              /\ RegistrationsOf(req[p].user, req[p].event) = {}]_vars

\* A registered user was answered DuplicateRegistration on a full event.
C8_Witness ==
    \E p \in Procs :
        /\ Answered(p, "register", "HTTP_400_BAD_REQUEST", {"DuplicateRegistration"})
        /\ req[p].event \in DOMAIN events
        /\ RegistrationsOf(req[p].user, req[p].event) # {}
        /\ events[req[p].event].max_attendees # None
        /\ is_full(events[req[p].event].max_attendees, req[p].event)

\* ------------------------------------------------------------------- C9
\* C9: every EventRegistration row is created at a time when its event's
\* date is not in the past: a register call on an event whose date is
\* earlier than now creates no row.
C9_NoRegistrationForPastEvent ==
    [][\A r \in registrations' \ registrations :
        r.event \in DOMAIN events => ~(events[r.event].date < now)]_vars

\* ------------------------------------------------------------------ C10
\* C10: a create whose date is earlier than now fails with PastDateError and
\* one whose max_attendees is given and <= 0 fails with InvalidCapacityError,
\* and neither persists an Event; an Event that create persists has
\* date >= now and max_attendees unset or > 0, and every persisted Event has
\* max_attendees unset or > 0.
C10_CreateValidation ==
    /\ [](\A e \in DOMAIN events : \A n \in events[e].max_attendees : n > 0)
    /\ [][\A p \in Procs :
            (req[p].pc = "is_valid" /\ Stepped(p)) =>
            LET past == \E d \in req[p].date : d < now
                bad == \E n \in req[p].max_attendees : n <= 0
            IN
            /\ past => "PastDateError" \in req'[p].errors
            /\ bad => "InvalidCapacityError" \in req'[p].errors
            /\ (past \/ bad) => /\ req'[p].status = "HTTP_400_BAD_REQUEST"
                                /\ events' = events
                                /\ nextEventId' = nextEventId
            /\ events' # events =>
                  /\ DOMAIN events' = DOMAIN events \cup {nextEventId}
                  /\ events'[nextEventId].date >= now
                  /\ events'[nextEventId].date \in req[p].date
                  /\ \A n \in events'[nextEventId].max_attendees : n > 0]_vars

\* A create with a past date was answered PastDateError and no Event exists.
C10_Witness ==
    \E p \in Procs :
        /\ req[p].pc = "done"
        /\ req[p].op = "create"
        /\ "PastDateError" \in req[p].errors
        /\ events = <<>>
        /\ nextEventId = 1

\* ------------------------------------------------------------------ C11
\* C11: an update or delete of an existing event by a user who is not its
\* organizer is answered PermissionDenied and changes neither the event nor
\* any registration; an event is changed or removed only by a call of its
\* organizer; the organizer is the user whose create call made the event and
\* no call changes it.
C11_OnlyOrganizerChanges ==
    [][/\ \A p \in Procs :
            /\ (/\ req[p].pc = "idle"
                /\ req'[p].op \in {"update", "destroy"}
                /\ req'[p].event \in DOMAIN events
                /\ events[req'[p].event].organizer # req'[p].user)
               => /\ Answers(p, "HTTP_403_FORBIDDEN", {"PermissionDenied"})
                  /\ events' = events
                  /\ registrations' = registrations
            /\ (/\ req[p].pc = "idle"
                /\ req'[p].op \in {"update", "destroy"}
                /\ events' # events)
               => /\ req'[p].event \in DOMAIN events
                  /\ events[req'[p].event].organizer = req'[p].user
            /\ (req[p].pc = "is_valid" /\ Stepped(p) /\ events' # events)
               => events'[nextEventId].organizer = req[p].user
       /\ \A e \in DOMAIN events \cap DOMAIN events' :
            events'[e].organizer = events[e].organizer]_vars

\* A user who is not the organizer was refused the update or delete of an
\* event that has a registration.
C11_Witness ==
    \E p \in Procs :
        /\ req[p].pc = "done"
        /\ req[p].op \in {"update", "destroy"}
        /\ req[p].status = "HTTP_403_FORBIDDEN"
        /\ req[p].errors = {"PermissionDenied"}
        /\ req[p].event \in DOMAIN events
        /\ events[req[p].event].organizer # req[p].user
        /\ \E r \in registrations : r.event = req[p].event

\* ------------------------------------------------------------------ C12
\* C12: a delete of an existing event by its organizer is answered 204 and
\* removes the event and every registration on it, leaving the other events
\* and the registrations on them unchanged; in every reachable state every
\* registration's event exists.
C12_DeleteCascades ==
    /\ [](\A r \in registrations : r.event \in DOMAIN events)
    /\ [][\A p \in Procs :
            (/\ req[p].pc = "idle"
             /\ req'[p].op = "destroy"
             /\ req'[p].event \in DOMAIN events
             /\ events[req'[p].event].organizer = req'[p].user)
            => LET e == req'[p].event IN
               /\ Answers(p, "HTTP_204_NO_CONTENT", {})
               /\ DOMAIN events' = DOMAIN events \ {e}
               /\ \A i \in DOMAIN events' : events'[i] = events[i]
               /\ ~\E r \in registrations' : r.event = e
               /\ {r \in registrations' : r.event # e}
                     = {r \in registrations : r.event # e}]_vars

\* An event on which a user had registered was deleted, and another event
\* still has its registration.
C12_Witness ==
    \E p, q \in Procs :
        /\ Answered(p, "destroy", "HTTP_204_NO_CONTENT", {})
        /\ Answered(q, "register", "HTTP_201_CREATED", {})
        /\ req[q].event = req[p].event
        /\ req[p].event \notin DOMAIN events
        /\ \E r \in registrations : r.event # req[p].event /\ r.event \in DOMAIN events

\* ------------------------------------------------------------------ C13
\* The sender fn has been called for (u, e): the call is in progress or
\* over, or its message has been delivered.
Dispatched(fn, u, e) ==
    \/ mail.pc # "idle" /\ mail.fn = fn /\ mail.user = u /\ mail.event = e
    \/ [fn |-> fn, user |-> u, event |-> e] \in outbox

\* C13: every successful register has dispatched a confirmation to the
\* registering user and every successful unregister a cancellation, by the
\* time its response is ready.
C13_NotificationDispatched ==
    \A p \in Procs :
        /\ Answered(p, "register", "HTTP_201_CREATED", {})
           => Dispatched("send_registration_confirmation_email",
                         req[p].user, req[p].event)
        /\ Answered(p, "unregister", "HTTP_200_OK", {})
           => Dispatched("send_unregistration_email", req[p].user, req[p].event)

\* ------------------------------------------------------------------ C14
\* C14: a notification sender never raises: whichever of its calls fails
\* (strftime, render_to_string, send_mail) it returns False, and it returns
\* True only when the message was delivered.
C14_SenderNeverRaises ==
    /\ mail.pc # "raised"
    /\ mail.pc = "returned" =>
          (mail.result <=>
              [fn |-> mail.fn, user |-> mail.user, event |-> mail.event] \in outbox)
    /\ (mail.pc = "returned" /\ mail.raises # {}) => ~mail.result

\* ------------------------------------------------------------------ C15
\* C15: with requests handled one at a time, every event with max_attendees
\* set has at most max_attendees confirmed registrations in every state.
C15_CapacityUpperBound ==
    \A e \in DOMAIN events :
        \A n \in events[e].max_attendees : attendees_count(e) <= n
====
